---- MODULE Spec2Model ----
(***************************************************************************)
(* A model of the web-server ThreadPool (src/web-server/src/lib.rs): the   *)
(* main thread that builds the pool, submits jobs and drops the pool, the  *)
(* worker threads that share the receiver behind a mutex, and the mpsc     *)
(* channel between them.                                                   *)
(*                                                                         *)
(* Every thread is modelled at the granularity of the steps other threads  *)
(* can observe: lock, recv, the release of the temporary guard at the end  *)
(* of the let statement, the match, the call of the job, and its end.      *)
(*                                                                         *)
(* The second part models the messages-actix server                        *)
(* (src/messages-actix/src/lib.rs): the atomic server counter, the         *)
(* request counter of each actix worker and the message log behind its     *)
(* mutex.  The two programs share no state; each specification moves the   *)
(* variables of one of them.                                               *)
(*                                                                         *)
(* The third part models handle_connection of the web server               *)
(* (src/web-server/src/bin/main.rs), the closure the pool is given: the    *)
(* read into the buffer, the comparison with the request line and the      *)
(* response.                                                               *)
(***************************************************************************)
EXTENDS Integers, Sequences, FiniteSets, TLC

\* Largest size handed to ThreadPool::new, and largest number of execute calls.
MaxWorkers == 3
MaxJobs == 2

\* guard value when no worker holds the MutexGuard on the receiver
NoWorker == -1

\* the id of worker slots 0 .. MaxWorkers-1 (Worker.id is a usize counted from 0)
WorkerIds == 0 .. (MaxWorkers - 1)

\* Number of actix workers that build an AppState (the source sets 8),
\* largest number of requests all of them handle, and the message texts.
MaxServers == 2
MaxRequests == 4
Texts == {"a", "b"}

\* the actix workers
ServerIds == 0 .. (MaxServers - 1)

VARIABLES
    mainpc,        \* position of the thread that owns the pool
    size,          \* the argument of ThreadPool::new
    chanCreated,   \* mpsc::channel() has been called
    channel,       \* envelopes sent and not yet received, oldest first
    guard,         \* the worker holding the MutexGuard of the receiver
    workers,       \* ThreadPool.workers: sequence of [id, thread]
    wpc,           \* position of each worker thread
    message,       \* the local `message` of each worker thread
    jobKind,       \* jobKind[j]: what the j-th submitted closure does when
                   \* called: "plain" returns, "panic" panics, "barrier"
                   \* waits on a barrier shared by the closures, then
                   \* returns, "hang" never returns
    invoked,       \* invoked[j]: number of times closure j was called
    finished,      \* closures that returned
    termSent,      \* Terminate envelopes sent by drop
    joinIdx,       \* position of drop's second loop in workers
    barrierCount,  \* closures waiting on the barrier
    barrierGen,    \* number of times the barrier released
    recvOrder,     \* history: job ids in the order they left the channel
    termRecv,      \* history: Terminate envelopes received by each worker
    inflightAtDrop,\* history: closures executing when drop began
    idleAtDrop,    \* history: every worker was in lock or recv when drop began
    queuedAtDrop,  \* history: NewJob envelopes in the channel when drop began
    senderDropped, \* the Sender of the channel has been dropped
    poisoned,      \* the receiver mutex is poisoned
    panicAt,       \* history: where each worker thread panicked, or "none"
    recvAtPanic    \* history: envelopes received before the first panic of
                   \* a closure, -1 while no closure has panicked

\* The messages-actix server (src/messages-actix/src/lib.rs)
VARIABLES
    serverCounter, \* static SERVER_COUNTER
    serverId,      \* AppState.server_id of each actix worker, -1 before its
                   \* AppState is built
    requestCount,  \* AppState.request_count of each actix worker
    messages,      \* the Vec<String> behind Arc<Mutex<..>>
    msgGuard,      \* the actix worker holding the MutexGuard of messages
    hpc,           \* position of each actix worker in its handler
    request,       \* the request each actix worker is handling
    localCount,    \* the local `request_count` of the running handler
    response,      \* the last response each actix worker returned
    appendLog,     \* history: pushed messages in the order of the pushes
    everCleared,   \* history: clear() has been called on messages
    startLen,      \* history: Len(appendLog) when the running handler began
    handled,       \* history: requests each actix worker has begun to handle
    lastWrite      \* history: the last handler that changed messages:
                   \* "none", "clear" or "push"

\* One connection of the web server (src/web-server/src/bin/main.rs)
VARIABLES
    hcPc,          \* position of handle_connection
    hcRequest,     \* the bytes the client sent on the stream
    hcBuffer,      \* the local `buffer`
    hcRead,        \* history: the bytes stream.read put in the buffer
    hcResponse     \* what handle_connection wrote to the stream

\* The scheduling of the worker threads, where a specification directs it
VARIABLES
    target         \* the worker and the closure a directed schedule brings
                   \* together, NoTarget while the schedule is free

appVars == <<serverCounter, serverId, requestCount, messages, msgGuard, hpc,
             request, localCount, response, appendLog, everCleared, startLen,
             handled, lastWrite>>

httpVars == <<hcPc, hcRequest, hcBuffer, hcRead, hcResponse>>

dirVars == <<target>>

poolVars == <<mainpc, size, chanCreated, channel, guard, workers, wpc, message,
              jobKind, invoked, finished, termSent, joinIdx, barrierCount,
              barrierGen, recvOrder, termRecv, inflightAtDrop, idleAtDrop,
              queuedAtDrop, senderDropped, poisoned, panicAt, recvAtPanic>>

vars == <<poolVars, appVars, httpVars, dirVars>>

\* enum Message { NewJob(Job), Terminate }
NewJob(j) == [type |-> "NewJob", job |-> j]
Terminate == [type |-> "Terminate", job |-> 0]
NoMessage == [type |-> "None", job |-> 0]

\* an actix worker that handles no request, and one that has returned none
NoRequest == [kind |-> "none", message |-> ""]
NoResponse == [kind |-> "none", server_id |-> -1, request_count |-> 0,
               list |-> [alias |-> FALSE, items |-> <<>>], message |-> ""]

\* struct Worker { id, thread }
Worker(id) == [id |-> id, thread |-> "Some"]

\* number of execute calls so far; closures are numbered 1, 2, ... in call order
NumSubmitted == Len(jobKind)

\* threads that hold a clone of the Arc<Mutex<Receiver>>: the spawned
\* closures that have not ended
LiveWorkers == {w \in WorkerIds : wpc[w] \notin {"unspawned", "exited", "panicked"}}

\* workers whose thread is inside a job payload
Executing == {w \in WorkerIds : wpc[w] \in {"job", "barrier_wait", "job_tail"}}

\* The Receiver exists while some Arc to it exists: the local `receiver` of
\* ThreadPool::new, or the clone moved into a worker closure still running.
ReceiverAlive == mainpc = "new_loop" \/ LiveWorkers # {}

\* envelopes taken off the channel so far
EnvelopesReceived ==
    Len(recvOrder) + Cardinality({w \in WorkerIds : termRecv[w] > 0})

\* mpsc::Sender::send on an existing receiver appends to the queue
SendLifo(q, m) == <<m>> \o q
Send(q, m) == Append(q, m)

\* mpsc::Receiver::recv takes the oldest envelope
DequeuePeek(q) == [msg |-> Head(q), rest |-> q]
DequeueNewest(q) == [msg |-> q[Len(q)], rest |-> SubSeq(q, 1, Len(q) - 1)]
Dequeue(q) == [msg |-> Head(q), rest |-> Tail(q)]

PoolInit ==
    /\ mainpc = "start"
    /\ size = 0
    /\ chanCreated = FALSE
    /\ channel = <<>>
    /\ guard = NoWorker
    /\ workers = <<>>
    /\ wpc = [w \in WorkerIds |-> "unspawned"]
    /\ message = [w \in WorkerIds |-> NoMessage]
    /\ jobKind = <<>>
    /\ invoked = <<>>
    /\ finished = {}
    /\ termSent = 0
    /\ joinIdx = 0
    /\ barrierCount = 0
    /\ barrierGen = 0
    /\ recvOrder = <<>>
    /\ termRecv = [w \in WorkerIds |-> 0]
    /\ inflightAtDrop = {}
    /\ idleAtDrop = FALSE
    /\ queuedAtDrop = 0
    /\ senderDropped = FALSE
    /\ poisoned = FALSE
    /\ panicAt = [w \in WorkerIds |-> "none"]
    /\ recvAtPanic = -1

\* static SERVER_COUNTER = AtomicUsize::new(0); run() starts with vec![]
\* and no AppState has been built
AppInit ==
    /\ serverCounter = 0
    /\ serverId = [a \in ServerIds |-> -1]
    /\ requestCount = [a \in ServerIds |-> 0]
    /\ messages = <<>>
    /\ msgGuard = NoWorker
    /\ hpc = [a \in ServerIds |-> "unbuilt"]
    /\ request = [a \in ServerIds |-> NoRequest]
    /\ localCount = [a \in ServerIds |-> 0]
    /\ response = [a \in ServerIds |-> NoResponse]
    /\ appendLog = <<>>
    /\ everCleared = FALSE
    /\ startLen = [a \in ServerIds |-> 0]
    /\ handled = [a \in ServerIds |-> 0]
    /\ lastWrite = "none"

\* no connection has been accepted
HttpInit ==
    /\ hcPc = "listening"
    /\ hcRequest = <<>>
    /\ hcBuffer = <<>>
    /\ hcRead = <<>>
    /\ hcResponse = <<>>

\* no schedule is directed
NoTarget == [w |-> NoWorker, i |-> 0]

Init == PoolInit /\ AppInit /\ HttpInit /\ target = NoTarget

----
\* ThreadPool::new

\* assert!(size > 0) fails: the panic leaves new before mpsc::channel()
NewPanic ==
    /\ mainpc = "start"
    /\ size' = 0
    /\ mainpc' = "panicked"
    /\ UNCHANGED <<chanCreated, channel, guard, workers, wpc, message, jobKind,
                   invoked, finished, termSent, joinIdx, barrierCount,
                   barrierGen, recvOrder, termRecv, inflightAtDrop, idleAtDrop,
                   queuedAtDrop,
                   senderDropped, poisoned, panicAt, recvAtPanic, appVars, httpVars, dirVars>>

\* assert passes; channel, Arc<Mutex<receiver>>, Vec::with_capacity(size)
NewBegin(n) ==
    /\ mainpc = "start"
    /\ n > 0
    /\ size' = n
    /\ chanCreated' = TRUE
    /\ workers' = <<>>
    /\ mainpc' = "new_loop"
    /\ UNCHANGED <<channel, guard, wpc, message, jobKind, invoked, finished,
                   termSent, joinIdx, barrierCount, barrierGen, recvOrder,
                   termRecv, inflightAtDrop, idleAtDrop, queuedAtDrop,
                   senderDropped, poisoned, panicAt, recvAtPanic, appVars, httpVars, dirVars>>

\* for id in 0..size
NewLoopDoneEarly == Len(workers) >= 1
NewLoopDone == Len(workers) = size

\* one iteration: workers.push(Worker::new(id, Arc::clone(&receiver)));
\* Worker::new spawns the thread, which starts at the top of its loop
NewSpawn ==
    /\ mainpc = "new_loop"
    /\ ~NewLoopDone
    /\ LET id == Len(workers) IN
        /\ workers' = Append(workers, Worker(id))
        /\ wpc' = [wpc EXCEPT ![id] = "lock"]
    /\ UNCHANGED <<mainpc, size, chanCreated, channel, guard, message, jobKind,
                   invoked, finished, termSent, joinIdx, barrierCount,
                   barrierGen, recvOrder, termRecv, inflightAtDrop, idleAtDrop,
                   queuedAtDrop,
                   senderDropped, poisoned, panicAt, recvAtPanic, appVars, httpVars, dirVars>>

\* thread::spawn panics when the operating system cannot create the thread:
\* new unwinds before a ThreadPool exists, so no drop runs; the locals
\* workers (the handles: the threads are detached), receiver and sender
\* are dropped
NewSpawnFail ==
    /\ mainpc = "new_loop"
    /\ ~NewLoopDone
    /\ mainpc' = "panicked"
    /\ workers' = <<>>
    /\ senderDropped' = TRUE
    /\ UNCHANGED <<size, chanCreated, channel, guard, wpc, message, jobKind,
                   invoked, finished, termSent, joinIdx, barrierCount,
                   barrierGen, recvOrder, termRecv, inflightAtDrop, idleAtDrop,
                   queuedAtDrop, poisoned, panicAt, recvAtPanic, appVars, httpVars, dirVars>>

\* ThreadPool { workers, sender } is returned; the local Arc is dropped
NewReturn ==
    /\ mainpc = "new_loop"
    /\ NewLoopDone
    /\ mainpc' = "alive"
    /\ UNCHANGED <<size, chanCreated, channel, guard, workers, wpc, message,
                   jobKind, invoked, finished, termSent, joinIdx, barrierCount,
                   barrierGen, recvOrder, termRecv, inflightAtDrop, idleAtDrop,
                   queuedAtDrop,
                   senderDropped, poisoned, panicAt, recvAtPanic, appVars, httpVars, dirVars>>

----
\* ThreadPool::execute

\* self.sender.send(Message::NewJob(job)).unwrap() with a receiver
Execute(kind) ==
    /\ mainpc = "alive"
    /\ NumSubmitted < MaxJobs
    /\ ReceiverAlive
    /\ jobKind' = Append(jobKind, kind)
    /\ invoked' = Append(invoked, 0)
    /\ channel' = Send(channel, NewJob(NumSubmitted + 1))
    /\ UNCHANGED <<mainpc, size, chanCreated, guard, workers, wpc, message,
                   finished, termSent, joinIdx, barrierCount, barrierGen,
                   recvOrder, termRecv, inflightAtDrop, idleAtDrop,
                   queuedAtDrop,
                   senderDropped, poisoned, panicAt, recvAtPanic, appVars, httpVars, dirVars>>

\* send returns Err once every worker thread has ended; unwrap panics.
\* A panic of the main thread is final: "panicked" has no successor.
ExecuteFail ==
    /\ mainpc = "alive"
    /\ NumSubmitted < MaxJobs
    /\ ~ReceiverAlive
    /\ mainpc' = "panicked"
    /\ UNCHANGED <<size, chanCreated, channel, guard, workers, wpc, message,
                   jobKind, invoked, finished, termSent, joinIdx, barrierCount,
                   barrierGen, recvOrder, termRecv, inflightAtDrop, idleAtDrop,
                   queuedAtDrop,
                   senderDropped, poisoned, panicAt, recvAtPanic, appVars, httpVars, dirVars>>

----
\* impl Drop for ThreadPool

\* the pool goes out of scope: drop is entered
DropBegin ==
    /\ mainpc = "alive"
    /\ mainpc' = "drop_send"
    /\ termSent' = 0
    /\ inflightAtDrop' = {message[w].job : w \in Executing}
    /\ idleAtDrop' = (\A i \in 1 .. Len(workers) :
                          wpc[workers[i].id] \in {"lock", "recv"})
    /\ queuedAtDrop' = Cardinality({i \in 1 .. Len(channel) :
                                        channel[i].type = "NewJob"})
    /\ UNCHANGED <<size, chanCreated, channel, guard, workers, wpc, message,
                   jobKind, invoked, finished, joinIdx, barrierCount,
                   barrierGen, recvOrder, termRecv,
                   senderDropped, poisoned, panicAt, recvAtPanic, appVars, httpVars, dirVars>>

\* for _ in &self.workers: the first loop ends after one pass over workers
SignalDoneEarly == termSent >= 1
SignalDone == termSent = Len(workers)

\* self.sender.send(Message::Terminate).unwrap() with a receiver
DropSend ==
    /\ mainpc = "drop_send"
    /\ ~SignalDone
    /\ ReceiverAlive
    /\ channel' = Send(channel, Terminate)
    /\ termSent' = termSent + 1
    /\ UNCHANGED <<mainpc, size, chanCreated, guard, workers, wpc, message,
                   jobKind, invoked, finished, joinIdx, barrierCount,
                   barrierGen, recvOrder, termRecv, inflightAtDrop, idleAtDrop,
                   queuedAtDrop,
                   senderDropped, poisoned, panicAt, recvAtPanic, appVars, httpVars, dirVars>>

\* send returns Err once every worker thread has ended; unwrap panics, and
\* the unwinding drops the fields of the pool, the sender among them
DropSendFail ==
    /\ mainpc = "drop_send"
    /\ ~SignalDone
    /\ ~ReceiverAlive
    /\ mainpc' = "panicked"
    /\ senderDropped' = TRUE
    /\ UNCHANGED <<size, chanCreated, channel, guard, workers, wpc, message,
                   jobKind, invoked, finished, termSent, joinIdx, barrierCount,
                   barrierGen, recvOrder, termRecv, inflightAtDrop, idleAtDrop,
                   queuedAtDrop,
                   poisoned, panicAt, recvAtPanic, appVars, httpVars, dirVars>>

\* the first loop is over; the second loop starts at workers[0]
DropSignalled ==
    /\ mainpc = "drop_send"
    /\ SignalDone
    /\ mainpc' = "drop_join"
    /\ joinIdx' = 1
    /\ UNCHANGED <<size, chanCreated, channel, guard, workers, wpc, message,
                   jobKind, invoked, finished, termSent, barrierCount,
                   barrierGen, recvOrder, termRecv, inflightAtDrop, idleAtDrop,
                   queuedAtDrop,
                   senderDropped, poisoned, panicAt, recvAtPanic, appVars, httpVars, dirVars>>

\* JoinHandle::join returns when the thread has ended
ThreadEndedAlways(w) == TRUE
ThreadEnded(w) == wpc[w] \in {"exited", "panicked"}

\* worker.thread.take() leaves None; join() returns Ok for a thread that
\* left its loop by break
DropJoin ==
    /\ mainpc = "drop_join"
    /\ joinIdx <= Len(workers)
    /\ workers[joinIdx].thread = "Some"
    /\ ThreadEnded(workers[joinIdx].id)
    /\ wpc[workers[joinIdx].id] # "panicked"
    /\ workers' = [workers EXCEPT ![joinIdx].thread = "None"]
    /\ joinIdx' = joinIdx + 1
    /\ UNCHANGED <<mainpc, size, chanCreated, channel, guard, wpc, message,
                   jobKind, invoked, finished, termSent, barrierCount,
                   barrierGen, recvOrder, termRecv, inflightAtDrop, idleAtDrop,
                   queuedAtDrop,
                   senderDropped, poisoned, panicAt, recvAtPanic, appVars, httpVars, dirVars>>

\* join() returns Err for a thread that ended by panic; unwrap panics: the
\* second loop is left, and the unwinding drops the fields of the pool
DropJoinFail ==
    /\ mainpc = "drop_join"
    /\ joinIdx <= Len(workers)
    /\ workers[joinIdx].thread = "Some"
    /\ ThreadEnded(workers[joinIdx].id)
    /\ wpc[workers[joinIdx].id] = "panicked"
    /\ workers' = [workers EXCEPT ![joinIdx].thread = "None"]
    /\ mainpc' = "panicked"
    /\ senderDropped' = TRUE
    /\ UNCHANGED <<size, chanCreated, channel, guard, wpc, message, jobKind,
                   invoked, finished, termSent, joinIdx, barrierCount,
                   barrierGen, recvOrder, termRecv, inflightAtDrop, idleAtDrop,
                   queuedAtDrop,
                   poisoned, panicAt, recvAtPanic, appVars, httpVars, dirVars>>

\* the second loop has passed the last worker: drop returns, and the
\* fields of the pool are dropped, the sender among them
DropReturn ==
    /\ mainpc = "drop_join"
    /\ joinIdx > Len(workers)
    /\ mainpc' = "done"
    /\ senderDropped' = TRUE
    /\ UNCHANGED <<size, chanCreated, channel, guard, workers, wpc, message,
                   jobKind, invoked, finished, termSent, joinIdx, barrierCount,
                   barrierGen, recvOrder, termRecv, inflightAtDrop, idleAtDrop,
                   queuedAtDrop,
                   poisoned, panicAt, recvAtPanic, appVars, httpVars, dirVars>>

----
\* The closure of Worker::new: loop { let message = ...; match message {..} }

\* a lock() that hands out a guard while another worker holds one
LockWithoutExclusion(w) ==
    /\ wpc[w] = "lock"
    /\ ~poisoned
    /\ guard' = w
    /\ wpc' = [wpc EXCEPT ![w] = "recv"]
    /\ UNCHANGED <<mainpc, size, chanCreated, channel, workers, message,
                   jobKind, invoked, finished, termSent, joinIdx, barrierCount,
                   barrierGen, recvOrder, termRecv, inflightAtDrop, idleAtDrop,
                   queuedAtDrop,
                   senderDropped, poisoned, panicAt, recvAtPanic, appVars, httpVars, dirVars>>

\* receiver.lock().unwrap(): blocks until no thread holds the guard, and
\* returns Ok for a mutex that is not poisoned
Lock(w) ==
    /\ wpc[w] = "lock"
    /\ guard = NoWorker
    /\ ~poisoned
    /\ guard' = w
    /\ wpc' = [wpc EXCEPT ![w] = "recv"]
    /\ UNCHANGED <<mainpc, size, chanCreated, channel, workers, message,
                   jobKind, invoked, finished, termSent, joinIdx, barrierCount,
                   barrierGen, recvOrder, termRecv, inflightAtDrop, idleAtDrop,
                   queuedAtDrop,
                   senderDropped, poisoned, panicAt, recvAtPanic, appVars, httpVars, dirVars>>

\* a recv() that hands closure j only to worker (j - 1) % size, as a pool
\* with one queue for each worker would
RecvByAffinity(w) ==
    /\ wpc[w] = "recv"
    /\ guard = w
    /\ channel # <<>>
    /\ Head(channel).type = "NewJob" => (Head(channel).job - 1) % size = w
    /\ LET d == Dequeue(channel) IN
        /\ message' = [message EXCEPT ![w] = d.msg]
        /\ channel' = d.rest
        /\ recvOrder' = IF d.msg.type = "NewJob"
                          THEN Append(recvOrder, d.msg.job)
                          ELSE recvOrder
        /\ termRecv' = IF d.msg.type = "Terminate"
                         THEN [termRecv EXCEPT ![w] = @ + 1]
                         ELSE termRecv
    /\ wpc' = [wpc EXCEPT ![w] = "unlock"]
    /\ UNCHANGED <<mainpc, size, chanCreated, guard, workers, jobKind, invoked,
                   finished, termSent, joinIdx, barrierCount, barrierGen,
                   inflightAtDrop, idleAtDrop, queuedAtDrop,
                   senderDropped, poisoned, panicAt, recvAtPanic, appVars, httpVars, dirVars>>

\* .recv().unwrap(): blocks until the channel holds an envelope, takes it
Recv(w) ==
    /\ wpc[w] = "recv"
    /\ guard = w
    /\ channel # <<>>
    /\ LET d == Dequeue(channel) IN
        /\ message' = [message EXCEPT ![w] = d.msg]
        /\ channel' = d.rest
        /\ recvOrder' = IF d.msg.type = "NewJob"
                          THEN Append(recvOrder, d.msg.job)
                          ELSE recvOrder
        /\ termRecv' = IF d.msg.type = "Terminate"
                         THEN [termRecv EXCEPT ![w] = @ + 1]
                         ELSE termRecv
    /\ wpc' = [wpc EXCEPT ![w] = "unlock"]
    /\ UNCHANGED <<mainpc, size, chanCreated, guard, workers, jobKind, invoked,
                   finished, termSent, joinIdx, barrierCount, barrierGen,
                   inflightAtDrop, idleAtDrop, queuedAtDrop,
                   senderDropped, poisoned, panicAt, recvAtPanic, appVars, httpVars, dirVars>>

\* a lock() that hands out the guard of a poisoned mutex
LockIgnoresPoison(w) ==
    /\ wpc[w] = "lock"
    /\ guard = NoWorker
    /\ poisoned
    /\ guard' = w
    /\ wpc' = [wpc EXCEPT ![w] = "recv"]
    /\ UNCHANGED <<mainpc, size, chanCreated, channel, workers, message,
                   jobKind, invoked, finished, termSent, joinIdx, barrierCount,
                   barrierGen, recvOrder, termRecv, inflightAtDrop, idleAtDrop,
                   queuedAtDrop, senderDropped, poisoned, panicAt, recvAtPanic,
                   appVars, httpVars, dirVars>>

\* lock() on a poisoned mutex returns Err; unwrap panics and the thread
\* ends; the guard inside the Err is dropped, the mutex is free again
LockPoisoned(w) ==
    /\ wpc[w] = "lock"
    /\ guard = NoWorker
    /\ poisoned
    /\ wpc' = [wpc EXCEPT ![w] = "panicked"]
    /\ panicAt' = [panicAt EXCEPT ![w] = "lock"]
    /\ UNCHANGED <<mainpc, size, chanCreated, channel, guard, workers, message,
                   jobKind, invoked, finished, termSent, joinIdx, barrierCount,
                   barrierGen, recvOrder, termRecv, inflightAtDrop, idleAtDrop,
                   queuedAtDrop, senderDropped, poisoned, recvAtPanic, appVars, httpVars, dirVars>>

\* recv() returns Err when the channel is empty and the sender is dropped;
\* unwrap panics inside the let statement, where the temporary guard is
\* alive: the thread ends, the unwinding poisons and unlocks the mutex
RecvClosed(w) ==
    /\ wpc[w] = "recv"
    /\ guard = w
    /\ channel = <<>>
    /\ senderDropped
    /\ wpc' = [wpc EXCEPT ![w] = "panicked"]
    /\ panicAt' = [panicAt EXCEPT ![w] = "recv"]
    /\ poisoned' = TRUE
    /\ guard' = NoWorker
    /\ UNCHANGED <<mainpc, size, chanCreated, channel, workers, message,
                   jobKind, invoked, finished, termSent, joinIdx, barrierCount,
                   barrierGen, recvOrder, termRecv, inflightAtDrop, idleAtDrop,
                   queuedAtDrop, senderDropped, recvAtPanic, appVars, httpVars, dirVars>>

\* the guard kept for the whole loop body, as `while let` would keep it
HoldGuard(w) ==
    /\ wpc[w] = "unlock"
    /\ guard = w
    /\ wpc' = [wpc EXCEPT ![w] = "match"]
    /\ UNCHANGED <<mainpc, size, chanCreated, channel, guard, workers, message,
                   jobKind, invoked, finished, termSent, joinIdx, barrierCount,
                   barrierGen, recvOrder, termRecv, inflightAtDrop, idleAtDrop,
                   queuedAtDrop,
                   senderDropped, poisoned, panicAt, recvAtPanic, appVars, httpVars, dirVars>>

\* end of the let statement: the temporary MutexGuard is dropped
DropGuard(w) ==
    /\ wpc[w] = "unlock"
    /\ guard = w
    /\ guard' = NoWorker
    /\ wpc' = [wpc EXCEPT ![w] = "match"]
    /\ UNCHANGED <<mainpc, size, chanCreated, channel, workers, message,
                   jobKind, invoked, finished, termSent, joinIdx, barrierCount,
                   barrierGen, recvOrder, termRecv, inflightAtDrop, idleAtDrop,
                   queuedAtDrop,
                   senderDropped, poisoned, panicAt, recvAtPanic, appVars, httpVars, dirVars>>

\* a job() handed to a thread of its own: the worker goes back to lock()
\* while the closure runs
StartJobDetached(w) ==
    /\ wpc[w] = "match"
    /\ message[w].type = "NewJob"
    /\ invoked' = [invoked EXCEPT ![message[w].job] = @ + 1]
    /\ wpc' = [wpc EXCEPT ![w] = "lock"]
    /\ message' = [message EXCEPT ![w] = NoMessage]
    /\ UNCHANGED <<mainpc, size, chanCreated, channel, guard, workers,
                   jobKind, finished, termSent, joinIdx, barrierCount,
                   barrierGen, recvOrder, termRecv, inflightAtDrop, idleAtDrop,
                   queuedAtDrop,
                   senderDropped, poisoned, panicAt, recvAtPanic, appVars, httpVars, dirVars>>

\* a job() that is called only by the holder of the receiver guard, which
\* the worker has dropped at the end of the let statement
StartJobUnderGuard(w) ==
    /\ wpc[w] = "match"
    /\ message[w].type = "NewJob"
    /\ guard = w
    /\ invoked' = [invoked EXCEPT ![message[w].job] = @ + 1]
    /\ wpc' = [wpc EXCEPT ![w] = "job"]
    /\ UNCHANGED <<mainpc, size, chanCreated, channel, guard, workers, message,
                   jobKind, finished, termSent, joinIdx, barrierCount,
                   barrierGen, recvOrder, termRecv, inflightAtDrop, idleAtDrop,
                   queuedAtDrop,
                   senderDropped, poisoned, panicAt, recvAtPanic, appVars, httpVars, dirVars>>

\* Message::NewJob(job) => job() is called
StartJob(w) ==
    /\ wpc[w] = "match"
    /\ message[w].type = "NewJob"
    /\ invoked' = [invoked EXCEPT ![message[w].job] = @ + 1]
    /\ wpc' = [wpc EXCEPT ![w] = "job"]
    /\ UNCHANGED <<mainpc, size, chanCreated, channel, guard, workers, message,
                   jobKind, finished, termSent, joinIdx, barrierCount,
                   barrierGen, recvOrder, termRecv, inflightAtDrop, idleAtDrop,
                   queuedAtDrop,
                   senderDropped, poisoned, panicAt, recvAtPanic, appVars, httpVars, dirVars>>

\* Message::Terminate => break: the closure returns and the thread ends
LoopOnTerminate(w) ==
    /\ wpc[w] = "match"
    /\ message[w].type = "Terminate"
    /\ wpc' = [wpc EXCEPT ![w] = "lock"]
    /\ message' = [message EXCEPT ![w] = NoMessage]
    /\ UNCHANGED <<mainpc, size, chanCreated, channel, guard, workers, jobKind,
                   invoked, finished, termSent, joinIdx, barrierCount,
                   barrierGen, recvOrder, termRecv, inflightAtDrop, idleAtDrop,
                   queuedAtDrop,
                   senderDropped, poisoned, panicAt, recvAtPanic, appVars, httpVars, dirVars>>

BreakOnTerminate(w) ==
    /\ wpc[w] = "match"
    /\ message[w].type = "Terminate"
    /\ wpc' = [wpc EXCEPT ![w] = "exited"]
    /\ message' = [message EXCEPT ![w] = NoMessage]
    /\ UNCHANGED <<mainpc, size, chanCreated, channel, guard, workers, jobKind,
                   invoked, finished, termSent, joinIdx, barrierCount,
                   barrierGen, recvOrder, termRecv, inflightAtDrop, idleAtDrop,
                   queuedAtDrop,
                   senderDropped, poisoned, panicAt, recvAtPanic, appVars, httpVars, dirVars>>

\* job() returns; the loop goes back to the let statement
JobReturn(w) ==
    /\ \/ wpc[w] = "job" /\ jobKind[message[w].job] = "plain"
       \/ wpc[w] = "job_tail"
    /\ finished' = finished \cup {message[w].job}
    /\ wpc' = [wpc EXCEPT ![w] = "lock"]
    /\ message' = [message EXCEPT ![w] = NoMessage]
    /\ UNCHANGED <<mainpc, size, chanCreated, channel, guard, workers, jobKind,
                   invoked, termSent, joinIdx, barrierCount, barrierGen,
                   recvOrder, termRecv, inflightAtDrop, idleAtDrop,
                   queuedAtDrop,
                   senderDropped, poisoned, panicAt, recvAtPanic, appVars, httpVars, dirVars>>

\* job() panics: nothing catches it, the thread unwinds and ends.  A
\* MutexGuard dropped by the unwinding poisons its mutex and unlocks it.
JobPanic(w) ==
    /\ wpc[w] = "job"
    /\ jobKind[message[w].job] = "panic"
    /\ wpc' = [wpc EXCEPT ![w] = "panicked"]
    /\ panicAt' = [panicAt EXCEPT ![w] = "job"]
    /\ recvAtPanic' = IF recvAtPanic = -1 THEN EnvelopesReceived ELSE recvAtPanic
    /\ poisoned' = (poisoned \/ guard = w)
    /\ guard' = IF guard = w THEN NoWorker ELSE guard
    /\ UNCHANGED <<mainpc, size, chanCreated, channel, workers, message,
                   jobKind, invoked, finished, termSent, joinIdx, barrierCount,
                   barrierGen, recvOrder, termRecv, inflightAtDrop, idleAtDrop,
                   queuedAtDrop, senderDropped, appVars, httpVars, dirVars>>

\* job() calls wait() on a barrier of width size: the last of size callers
\* releases all of them, the others block
BarrierWait(w) ==
    /\ wpc[w] = "job"
    /\ jobKind[message[w].job] = "barrier"
    /\ IF barrierCount + 1 = size
         THEN /\ wpc' = [v \in WorkerIds |->
                            IF v = w \/ wpc[v] = "barrier_wait"
                              THEN "job_tail" ELSE wpc[v]]
              /\ barrierCount' = 0
              /\ barrierGen' = barrierGen + 1
         ELSE /\ wpc' = [wpc EXCEPT ![w] = "barrier_wait"]
              /\ barrierCount' = barrierCount + 1
              /\ UNCHANGED barrierGen
    /\ UNCHANGED <<mainpc, size, chanCreated, channel, guard, workers, message,
                   jobKind, invoked, finished, termSent, joinIdx, recvOrder,
                   termRecv, inflightAtDrop, idleAtDrop, queuedAtDrop,
                   senderDropped, poisoned, panicAt, recvAtPanic, appVars, httpVars, dirVars>>

----
\* The specifications

WorkerLoop(w) ==
    \/ Lock(w) \/ LockPoisoned(w) \/ Recv(w) \/ RecvClosed(w) \/ DropGuard(w)
    \/ StartJob(w) \/ BreakOnTerminate(w)

\* closures that return or panic
Next ==
    \/ NewPanic
    \/ \E n \in 1 .. MaxWorkers : NewBegin(n)
    \/ NewSpawn
    \/ NewSpawnFail
    \/ NewReturn
    \/ \E kind \in {"plain", "panic"} : Execute(kind)
    \/ ExecuteFail
    \/ DropBegin
    \/ DropSend
    \/ DropSendFail
    \/ DropSignalled
    \/ DropJoin
    \/ DropJoinFail
    \/ DropReturn
    \/ \E w \in WorkerIds : Lock(w)
    \/ \E w \in WorkerIds : LockPoisoned(w)
    \/ \E w \in WorkerIds : Recv(w)
    \/ \E w \in WorkerIds : RecvClosed(w)
    \/ \E w \in WorkerIds : DropGuard(w)
    \/ \E w \in WorkerIds : StartJob(w)
    \/ \E w \in WorkerIds : BreakOnTerminate(w)
    \/ \E w \in WorkerIds : JobReturn(w)
    \/ \E w \in WorkerIds : JobPanic(w)

Spec == Init /\ [][Next]_vars

\* Threads are scheduled by the operating system: a thread that can take a
\* step eventually takes it.  Whether and when the owner of the pool calls
\* execute or lets the pool go out of scope is left open; once inside new or
\* drop the main thread runs on.
Fairness ==
    /\ \A w \in WorkerIds :
         WF_vars(WorkerLoop(w) \/ JobReturn(w) \/ JobPanic(w) \/ BarrierWait(w))
    /\ WF_vars(NewSpawn \/ NewReturn)
    /\ WF_vars(DropSend \/ DropSendFail \/ DropSignalled \/ DropJoin
               \/ DropJoinFail \/ DropReturn)

FairSpec == Spec /\ Fairness

\* closures that wait on a shared barrier of width size
NextBarrier ==
    \/ \E n \in 1 .. MaxWorkers : NewBegin(n)
    \/ NewSpawn
    \/ NewReturn
    \/ Execute("barrier")
    \/ DropBegin
    \/ DropSend
    \/ DropSignalled
    \/ DropJoin
    \/ DropReturn
    \/ \E w \in WorkerIds : Lock(w)
    \/ \E w \in WorkerIds : Recv(w)
    \/ \E w \in WorkerIds : DropGuard(w)
    \/ \E w \in WorkerIds : StartJob(w)
    \/ \E w \in WorkerIds : BreakOnTerminate(w)
    \/ \E w \in WorkerIds : BarrierWait(w)
    \/ \E w \in WorkerIds : JobReturn(w)

SpecBarrier == Init /\ [][NextBarrier]_vars /\ Fairness

----
\* Properties of the pool

\* drop has been entered and has not panicked
InDrop == mainpc \in {"drop_send", "drop_join", "done"}

\* the workers pushed by ThreadPool::new
Spawned == {workers[i].id : i \in 1 .. Len(workers)}

AnyPanicked == \E w \in WorkerIds : wpc[w] = "panicked"

\* C1: when drop has returned, each of the K closures passed to execute has
\* been called exactly once, also when K exceeds the number of workers and
\* NewJob envelopes were still queued when drop began.
C1_AllJobsRunOnce ==
    mainpc = "done" =>
        \A j \in 1 .. NumSubmitted : invoked[j] = 1 /\ j \in finished

C1_Witness ==
    /\ mainpc = "done"
    /\ NumSubmitted > size
    /\ queuedAtDrop > 0
    /\ \A j \in 1 .. NumSubmitted : invoked[j] = 1

\* C2: when drop has returned, every worker created by new has left its
\* loop and has been joined (its handle taken); no worker thread is live.
C2_AllJoined ==
    mainpc = "done" =>
        /\ Len(workers) = size
        /\ \A i \in 1 .. Len(workers) :
              wpc[workers[i].id] = "exited" /\ workers[i].thread = "None"
        /\ LiveWorkers = {}

C2_Witness ==
    /\ mainpc = "done"
    /\ size >= 2
    /\ \A i \in 1 .. Len(workers) : workers[i].thread = "None"

\* C3: no worker is inside a job payload while it holds the guard of the
\* receiver mutex.
C3_GuardNotHeldInJob == \A w \in Executing : guard # w

C3_Witness ==
    \E w \in Executing : \E v \in WorkerIds : v # w /\ guard = v /\ wpc[v] = "recv"

\* C4: with size >= 2 workers and at least size closures that wait on the
\* barrier of width size, the barrier eventually releases, and it releases
\* in a state where size closures are executing at the same time.
C4_BarrierReleases ==
    /\ (InDrop /\ size >= 2 /\ NumSubmitted >= size) ~> (barrierGen >= 1)
    /\ (mainpc = "alive" /\ size >= 2 /\ NumSubmitted >= size) ~> (barrierGen >= 1)
    /\ [][barrierGen' # barrierGen => Cardinality(Executing') = size]_vars

C4_Witness ==
    /\ size >= 2
    /\ barrierGen >= 1
    /\ Cardinality(Executing) = size
    /\ \A w \in Executing : wpc[w] = "job_tail"

\* C5: NewJob envelopes leave the channel in the order of the execute
\* calls: the k-th envelope received, by whichever worker, is closure k.
C5_FifoDelivery == \A i \in 1 .. Len(recvOrder) : recvOrder[i] = i

C5_Witness ==
    /\ Len(recvOrder) >= 2
    /\ \E w, v \in WorkerIds :
          /\ w # v
          /\ message[w] = NewJob(1)
          /\ message[v] = NewJob(2)

\* C6: if every worker waits in lock or recv when drop begins, drop
\* eventually returns: always when the channel is empty at that time, and
\* otherwise unless a queued closure panics; no execute call happens after
\* drop has begun.
C6_IdleDropReturns ==
    /\ (mainpc = "drop_send" /\ idleAtDrop /\ queuedAtDrop = 0) ~> (mainpc = "done")
    /\ (mainpc = "drop_send" /\ idleAtDrop) ~> (mainpc = "done" \/ AnyPanicked)
    /\ [][InDrop => NumSubmitted' = NumSubmitted]_vars

C6_Witness ==
    /\ mainpc = "done"
    /\ idleAtDrop
    /\ queuedAtDrop = 0
    /\ size >= 2

\* C7: when drop has returned, every closure that was executing when drop
\* began has returned.
C7_WaitsForInflight == mainpc = "done" => inflightAtDrop \subseteq finished

C7_Witness ==
    /\ mainpc = "done"
    /\ Cardinality(inflightAtDrop) >= 2

\* new has returned a pool
NewReturned == mainpc \in {"alive", "drop_send", "drop_join", "done"}

\* C8: once new(size) has returned, size >= 1 and workers holds exactly size
\* workers with ids 0 .. size-1 in order, each with a spawned thread, and
\* until drop begins each handle is present; new(0) panics with no channel
\* created and no thread spawned.
C8_NewCreatesWorkers ==
    /\ NewReturned =>
          /\ size >= 1
          /\ Len(workers) = size
          /\ \A i \in 1 .. Len(workers) : workers[i].id = i - 1
          /\ \A w \in WorkerIds : (wpc[w] # "unspawned") <=> (w < size)
    /\ mainpc = "alive" =>
          \A i \in 1 .. Len(workers) : workers[i].thread = "Some"
    /\ (mainpc # "start" /\ size = 0) =>
          /\ mainpc = "panicked"
          /\ ~chanCreated
          /\ workers = <<>>
          /\ \A w \in WorkerIds : wpc[w] = "unspawned"

C8_Witness ==
    /\ mainpc = "alive"
    /\ size >= 2
    /\ Len(workers) = size
    /\ NumSubmitted = 0
    /\ \A w \in Spawned : wpc[w] \in {"lock", "recv"}

\* some worker's handle has been taken for join
AnyJoined == \E i \in 1 .. Len(workers) : workers[i].thread = "None"

\* C9: drop never sends more than size Terminate envelopes, and once the
\* join loop has started or any handle has been taken, exactly size of them
\* have been sent.
C9_SignalThenJoin ==
    /\ termSent <= size
    /\ (AnyJoined \/ mainpc \in {"drop_join", "done"}) => termSent = size

C9_Witness ==
    /\ AnyJoined
    /\ size >= 2
    /\ termSent = size
    /\ \E w \in Spawned : wpc[w] # "exited"

\* every worker has received one Terminate and left its loop
AllTerminated ==
    \A w \in Spawned : wpc[w] = "exited" /\ termRecv[w] = 1

\* C10: once drop has sent size Terminate envelopes, every worker eventually
\* has received exactly one of them and has left its loop, unless a closure
\* panicked; no worker ever receives a second Terminate.
C10_AllObserveTerminate ==
    /\ (InDrop /\ termSent = size) ~> (AllTerminated \/ AnyPanicked)
    /\ [](\A w \in WorkerIds : termRecv[w] <= 1)

C10_Witness ==
    /\ AllTerminated
    /\ size >= 2
    /\ inflightAtDrop # {}
    /\ queuedAtDrop > 0

----
\* Panics in the pool

\* C11: a worker whose recv finds the channel closed (empty, sender dropped)
\* leaves its loop cleanly: its thread ends without panic and the receiver
\* mutex is not poisoned.
C11_ClosedRecvExitsCleanly ==
    [][\A w \in WorkerIds :
          (wpc[w] = "recv" /\ guard = w /\ channel = <<>> /\ senderDropped
              /\ wpc'[w] # "recv")
          => (wpc'[w] = "exited" /\ ~poisoned')]_vars

\* drop's second loop has been left, by return or by panic
JoinPhaseOver == joinIdx >= 1 /\ mainpc \in {"done", "panicked"}

\* C12: when a join fails, drop goes on joining: its second loop is left
\* only after the handle of every worker has been taken and joined.
C12_JoinFailureContinues ==
    JoinPhaseOver =>
        \A i \in 1 .. Len(workers) :
            workers[i].thread = "None" /\ ThreadEnded(workers[i].id)

\* C13: after a closure panicked inside a worker, the receiver mutex is
\* not poisoned and not held by the dead worker: a worker waiting in lock
\* can take the free guard, and the holder of the guard can take the next
\* envelope.
C13_JobPanicLeavesMutexSound ==
    (\E w \in WorkerIds : panicAt[w] = "job") =>
        /\ ~poisoned
        /\ \A w \in WorkerIds : panicAt[w] = "job" => guard # w
        /\ \A v \in WorkerIds :
              /\ (wpc[v] = "lock" /\ guard = NoWorker) => ENABLED Lock(v)
              /\ (wpc[v] = "recv" /\ channel # <<>>) => ENABLED Recv(v)

C13_Witness ==
    /\ recvAtPanic >= 0
    /\ EnvelopesReceived > recvAtPanic
    /\ \E w, v \in WorkerIds :
          /\ panicAt[w] = "job"
          /\ wpc[v] = "unlock"
          /\ message[v].type = "NewJob"

\* the pool exists and drop has not sent its last Terminate
PoolAlive ==
    \/ mainpc = "alive"
    \/ mainpc = "drop_send" /\ termSent < size

\* C14: while the pool is alive a reference to the receiver exists, so the
\* next send succeeds.
C14_ReceiverOutlivesPool == PoolAlive => ReceiverAlive

\* C15: before drop begins every worker has its handle and a thread that
\* has not ended.
C15_WorkersLiveWhilePoolAlive ==
    mainpc = "alive" =>
        \A i \in 1 .. Len(workers) :
            workers[i].thread = "Some" /\ workers[i].id \in LiveWorkers

\* C16: once the receiver mutex is poisoned no worker takes its guard or
\* enters recv, no closure is called, and a worker that finds the poison on
\* lock ends by panic.
C16_PoisonIsFatal ==
    /\ [][poisoned =>
            /\ invoked' = invoked
            /\ guard' = NoWorker
            /\ \A w \in WorkerIds :
                  /\ wpc'[w] \in {"recv", "unlock", "match", "job"} => wpc'[w] = wpc[w]
                  /\ (wpc[w] = "lock" /\ wpc'[w] # "lock") => wpc'[w] = "panicked"]_vars
    /\ [](\A w \in WorkerIds : panicAt[w] = "lock" => poisoned /\ wpc[w] = "panicked")

C16_Witness ==
    /\ poisoned
    /\ \E w, v \in WorkerIds :
          /\ panicAt[w] = "recv"
          /\ panicAt[v] = "lock"
          /\ wpc[v] = "panicked"

----
\* messages-actix: the factory closure of HttpServer::new and the handlers.
\* An actix worker is one thread: it builds its AppState, then runs one
\* handler at a time, each to its end.

\* AtomicUsize::fetch_add(1, SeqCst): one atomic step that returns the
\* previous value
FetchAddReturnsNew(c) == [prev |-> c + 1, next |-> c + 1]
FetchAddLost(c) == [prev |-> c, next |-> c]
FetchAdd(c) == [prev |-> c, next |-> c + 1]

\* state.request_count.get() + 1
IncrementedTwice(c) == c + 2
Incremented(c) == c + 1

\* state.request_count.set(v): the Cell of the AppState of actix worker a;
\* one Cell shared by every AppState would be set for all of them
SetCountShared(rc, a, v) == [b \in DOMAIN rc |-> v]
SetCount(rc, a, v) == [rc EXCEPT ![a] = v]

\* ms.push(text)
PushReplaces(ms, text) == <<text>>
Push(ms, text) == Append(ms, text)

\* ms.clear(): removes every element
ClearedKeepsOldest(ms) == IF ms = <<>> THEN <<>> ELSE <<Head(ms)>>
Cleared(ms) == <<>>

\* ms.clone(): a new Vec with the same elements; an alias would be a
\* reference to the shared Vec
CloneShares(ms) == [alias |-> TRUE, items |-> <<>>]
Clone(ms) == [alias |-> FALSE, items |-> ms]

\* the elements a client reads in the list of a response
ListOf(r) == IF r.list.alias THEN messages ELSE r.list.items

RECURSIVE SumHandled(_)
SumHandled(n) == IF n < 0 THEN 0 ELSE handled[n] + SumHandled(n - 1)

\* requests begun by all actix workers
TotalHandled == SumHandled(MaxServers - 1)

\* App::new().data(AppState { server_id: SERVER_COUNTER.fetch_add(..),
\* request_count: Cell::new(0), messages: messages.clone() })
BuildAppState(a) ==
    /\ hpc[a] = "unbuilt"
    /\ LET f == FetchAdd(serverCounter) IN
        /\ serverId' = [serverId EXCEPT ![a] = f.prev]
        /\ serverCounter' = f.next
    /\ requestCount' = [requestCount EXCEPT ![a] = 0]
    /\ hpc' = [hpc EXCEPT ![a] = "idle"]
    /\ UNCHANGED <<messages, msgGuard, request, localCount, response,
                   appendLog, everCleared, startLen, handled, lastWrite,
                   poolVars, httpVars, dirVars>>

\* the first two statements of index, clear and post:
\* let request_count = state.request_count.get() + 1;
\* state.request_count.set(request_count);
BeginRequest(a, kind, text) ==
    /\ hpc[a] = "idle"
    /\ TotalHandled < MaxRequests
    /\ request' = [request EXCEPT ![a] = [kind |-> kind, message |-> text]]
    /\ localCount' = [localCount EXCEPT ![a] = Incremented(requestCount[a])]
    /\ requestCount' = SetCount(requestCount, a, Incremented(requestCount[a]))
    /\ hpc' = [hpc EXCEPT ![a] = "lock"]
    /\ handled' = [handled EXCEPT ![a] = @ + 1]
    /\ startLen' = [startLen EXCEPT ![a] = Len(appendLog)]
    /\ UNCHANGED <<serverCounter, serverId, messages, msgGuard, response,
                   appendLog, everCleared, lastWrite,
                   poolVars, httpVars, dirVars>>

\* state.messages.lock().unwrap(): blocks until no thread holds the guard
LockMessages(a) ==
    /\ hpc[a] = "lock"
    /\ msgGuard = NoWorker
    /\ msgGuard' = a
    /\ hpc' = [hpc EXCEPT ![a] = "locked"]
    /\ UNCHANGED <<serverCounter, serverId, requestCount, messages, request,
                   localCount, response, appendLog, everCleared, startLen,
                   handled, lastWrite,
                   poolVars, httpVars, dirVars>>

\* index: Ok(web::Json(IndexResponse { .., messages: ms.clone() })); the
\* guard ms is dropped when the handler returns
IndexReturn(a) ==
    /\ hpc[a] = "locked"
    /\ msgGuard = a
    /\ request[a].kind = "index"
    /\ response' = [response EXCEPT ![a] =
                      [kind |-> "index", server_id |-> serverId[a],
                       request_count |-> localCount[a],
                       list |-> Clone(messages), message |-> ""]]
    /\ msgGuard' = NoWorker
    /\ hpc' = [hpc EXCEPT ![a] = "idle"]
    /\ request' = [request EXCEPT ![a] = NoRequest]
    /\ UNCHANGED <<serverCounter, serverId, requestCount, messages, localCount,
                   appendLog, everCleared, startLen, handled, lastWrite,
                   poolVars, httpVars, dirVars>>

\* clear: ms.clear(); Ok(web::Json(IndexResponse { .., messages: vec![] }))
ClearReturn(a) ==
    /\ hpc[a] = "locked"
    /\ msgGuard = a
    /\ request[a].kind = "clear"
    /\ messages' = Cleared(messages)
    /\ everCleared' = TRUE
    /\ lastWrite' = "clear"
    /\ response' = [response EXCEPT ![a] =
                      [kind |-> "clear", server_id |-> serverId[a],
                       request_count |-> localCount[a],
                       list |-> [alias |-> FALSE, items |-> <<>>],
                       message |-> ""]]
    /\ msgGuard' = NoWorker
    /\ hpc' = [hpc EXCEPT ![a] = "idle"]
    /\ request' = [request EXCEPT ![a] = NoRequest]
    /\ UNCHANGED <<serverCounter, serverId, requestCount, localCount,
                   appendLog, startLen, handled, poolVars, httpVars, dirVars>>

\* post: ms.push(msg.message.clone()); Ok(web::Json(PostResponse { .. }))
PostReturn(a) ==
    /\ hpc[a] = "locked"
    /\ msgGuard = a
    /\ request[a].kind = "post"
    /\ messages' = Push(messages, request[a].message)
    /\ appendLog' = Append(appendLog, request[a].message)
    /\ lastWrite' = "push"
    /\ response' = [response EXCEPT ![a] =
                      [kind |-> "post", server_id |-> serverId[a],
                       request_count |-> localCount[a],
                       list |-> [alias |-> FALSE, items |-> <<>>],
                       message |-> request[a].message]]
    /\ msgGuard' = NoWorker
    /\ hpc' = [hpc EXCEPT ![a] = "idle"]
    /\ request' = [request EXCEPT ![a] = NoRequest]
    /\ UNCHANGED <<serverCounter, serverId, requestCount, localCount,
                   everCleared, startLen, handled, poolVars, httpVars, dirVars>>

NextApp ==
    \/ \E a \in ServerIds : BuildAppState(a)
    \/ \E a \in ServerIds : BeginRequest(a, "index", "")
    \/ \E a \in ServerIds : BeginRequest(a, "clear", "")
    \/ \E a \in ServerIds, text \in Texts : BeginRequest(a, "post", text)
    \/ \E a \in ServerIds : LockMessages(a)
    \/ \E a \in ServerIds : IndexReturn(a)
    \/ \E a \in ServerIds : ClearReturn(a)
    \/ \E a \in ServerIds : PostReturn(a)

SpecApp == Init /\ [][NextApp]_vars

\* the actix workers whose AppState has been built
Built == {a \in ServerIds : hpc[a] # "unbuilt"}

\* C17: no two AppState instances have the same server_id.
C17_ServerIdsUnique ==
    \A a, b \in Built : a # b => serverId[a] # serverId[b]

C17_Witness ==
    /\ Built = ServerIds
    /\ serverId[0] > serverId[1]

\* s is an initial part of t
IsPrefix(s, t) == Len(s) <= Len(t) /\ SubSeq(t, 1, Len(s)) = s

\* actix worker a returns from index in this step
IndexReturns(a) ==
    hpc[a] = "locked" /\ request[a].kind = "index" /\ hpc'[a] = "idle"

\* C18: as long as no clear has run, the log holds exactly the pushed
\* messages in the order the pushes took the guard (no push is lost or
\* half applied), and the list returned by an index is the whole log at
\* the time index held the guard: an initial part of the push order that
\* contains every push completed before that index began.
C18_LogLinearizable ==
    /\ [](~everCleared =>
            /\ messages = appendLog
            /\ \A a \in ServerIds :
                  response[a].kind = "index" =>
                      IsPrefix(ListOf(response[a]), appendLog))
    /\ [][\A a \in ServerIds :
            (IndexReturns(a) /\ ~everCleared) =>
                /\ ListOf(response[a])' = appendLog
                /\ Len(ListOf(response[a])') >= startLen[a]]_vars

C18_Witness ==
    /\ ~everCleared
    /\ Len(appendLog) >= 3
    /\ \E a \in ServerIds :
          /\ response[a].kind = "index"
          /\ hpc[a] = "idle"
          /\ Len(ListOf(response[a])) = 2
          /\ startLen[a] = 1

C20_RequestCountCounts ==
    /\ [](\A a \in ServerIds :
            /\ requestCount[a] = handled[a]
            /\ hpc[a] \in {"lock", "locked"} => localCount[a] = handled[a]
            /\ (hpc[a] = "idle" /\ response[a].kind # "none")
                  => response[a].request_count = handled[a])
    /\ [][\A a \in ServerIds :
            \/ requestCount'[a] = requestCount[a]
            \/ /\ requestCount'[a] = requestCount[a] + 1
               /\ hpc[a] = "idle" /\ hpc'[a] = "lock"]_vars

C20_Witness ==
    \E a, b \in ServerIds :
        /\ a # b
        /\ hpc[a] = "idle"
        /\ response[a].kind = "clear"
        /\ response[a].request_count = 3
        /\ handled[b] = 1

----
\* web-server: one connection handled by handle_connection
\* (src/web-server/src/bin/main.rs).  Bytes are their ASCII codes.

\* let mut buffer = [0; 1024]
BufferSize == 1024

\* b"GET / HTTP/1.1\r\n"
GetLine == <<71, 69, 84, 32, 47, 32, 72, 84, 84, 80, 47, 49, 46, 49, 13, 10>>

\* what may follow the request line: nothing, an empty line, a header
Tails == {<<>>, <<13, 10>>, <<72, 111, 115, 116, 58, 32, 120, 13, 10, 13, 10>>}

\* The requests a client sends: the request line of GET / with each tail,
\* each of its proper prefixes, the line with one byte replaced, with a
\* byte in front, with a version of one more digit, ended by LF alone,
\* and a POST of the same path.
Requests ==
    {GetLine \o t : t \in Tails}
    \cup {SubSeq(GetLine, 1, k) : k \in 0 .. (Len(GetLine) - 1)}
    \cup {[GetLine EXCEPT ![i] = b] \o t :
             i \in 1 .. Len(GetLine), b \in {0, 120}, t \in Tails}
    \cup {<<32>> \o GetLine,
          SubSeq(GetLine, 1, 14) \o <<48, 13, 10>>,
          SubSeq(GetLine, 1, 14) \o <<10>>,
          <<80, 79, 83, 84>> \o SubSeq(GetLine, 4, 16)}

\* n zero bytes
Zeros(n) == [i \in 1 .. n |-> 0]

\* <[u8]>::starts_with(needle)
StartsWithoutLineEnd(buf, needle) ==
    /\ Len(needle) - 2 <= Len(buf)
    /\ SubSeq(buf, 1, Len(needle) - 2) = SubSeq(needle, 1, Len(needle) - 2)
StartsWith(buf, needle) ==
    /\ Len(needle) <= Len(buf)
    /\ SubSeq(buf, 1, Len(needle)) = needle

\* fs::read_to_string(filename) on the two files the server ships with
ReadToString(filename) ==
    IF filename = "index.html" THEN "<index.html>" ELSE "<404.html>"

\* format!("{}{}", status_line, contents)
Format(status_line, contents) == <<status_line, contents>>

\* for stream in listener.incoming(): handle_connection(stream) is called
\* with a stream on which the client sent req
Accept(req) ==
    /\ hcPc = "listening"
    /\ hcRequest' = req
    /\ hcBuffer' = Zeros(BufferSize)
    /\ hcPc' = "accepted"
    /\ UNCHANGED <<hcRead, hcResponse, poolVars, appVars, dirVars>>

\* stream.read(&mut buffer) returns Ok(n): the first n bytes of the request
\* are in the buffer; n may be smaller than what the client sent
Read(n) ==
    /\ hcPc = "accepted"
    /\ n <= Len(hcRequest)
    /\ n <= BufferSize
    /\ hcRead' = SubSeq(hcRequest, 1, n)
    /\ hcBuffer' = SubSeq(hcRequest, 1, n) \o SubSeq(hcBuffer, n + 1, BufferSize)
    /\ hcPc' = "read"
    /\ UNCHANGED <<hcRequest, hcResponse, poolVars, appVars, dirVars>>

\* stream.read(&mut buffer) returns Err: unwrap panics
ReadFail ==
    /\ hcPc = "accepted"
    /\ hcPc' = "panicked"
    /\ UNCHANGED <<hcRequest, hcBuffer, hcRead, hcResponse, poolVars, appVars, dirVars>>

\* the choice of status_line and filename, read_to_string, format!, and
\* stream.write / stream.flush succeeding
Respond ==
    /\ hcPc = "read"
    /\ LET ok == StartsWith(hcBuffer, GetLine)
           status_line == IF ok THEN "HTTP/1.1 200 OK\r\n\r\n"
                                ELSE "HTTP/1.1 404 NOT FOUND\r\n\r\n"
           filename == IF ok THEN "index.html" ELSE "404.html"
       IN  hcResponse' = Format(status_line, ReadToString(filename))
    /\ hcPc' = "done"
    /\ UNCHANGED <<hcRequest, hcBuffer, hcRead, poolVars, appVars, dirVars>>

\* stream.write or stream.flush returns Err: unwrap panics
WriteFail ==
    /\ hcPc = "read"
    /\ hcPc' = "panicked"
    /\ UNCHANGED <<hcRequest, hcBuffer, hcRead, hcResponse, poolVars, appVars, dirVars>>

NextHttp ==
    \/ \E req \in Requests : Accept(req)
    \/ \E n \in 0 .. BufferSize : Read(n)
    \/ ReadFail
    \/ Respond
    \/ WriteFail

SpecHttp == Init /\ [][NextHttp]_vars

\* the bytes read begin with the 16 bytes of "GET / HTTP/1.1\r\n"
ReadBeginsWithGet ==
    /\ Len(hcRead) >= 16
    /\ \A i \in 1 .. 16 : hcRead[i] = GetLine[i]

\* C21: when handle_connection has answered, the answer is the status line
\* HTTP/1.1 200 OK followed by the contents of index.html if the bytes read
\* begin with the 16 bytes GET / HTTP/1.1 CR LF, and the status line
\* HTTP/1.1 404 NOT FOUND followed by the contents of 404.html otherwise.
C21_StatusByRequestLine ==
    hcPc = "done" =>
        /\ Len(GetLine) = 16
        /\ IF ReadBeginsWithGet
           THEN hcResponse = <<"HTTP/1.1 200 OK\r\n\r\n", "<index.html>">>
           ELSE hcResponse = <<"HTTP/1.1 404 NOT FOUND\r\n\r\n", "<404.html>">>

\* a request longer than its request line was answered with 200 OK
C21_Witness ==
    /\ hcPc = "done"
    /\ Len(hcRead) > 16
    /\ hcResponse[1] = "HTTP/1.1 200 OK\r\n\r\n"

----
\* Further properties of the thread pool

\* C22: no NewJob envelope is sent once drop has begun, so in every state
\* of the channel no NewJob envelope lies behind a Terminate envelope, and
\* no worker takes a NewJob envelope after some worker took a Terminate.
C22_NoJobAfterTerminate ==
    /\ [](\A i, j \in 1 .. Len(channel) :
            (i < j /\ channel[i].type = "Terminate") => channel[j].type # "NewJob")
    /\ [][(InDrop \/ termSent > 0) => jobKind' = jobKind]_vars
    /\ [][(\E w \in WorkerIds : termRecv[w] > 0) => recvOrder' = recvOrder]_vars

\* a NewJob envelope and a Terminate envelope behind it are in the channel
C22_Witness ==
    \E i, j \in 1 .. Len(channel) :
        i < j /\ channel[i].type = "NewJob" /\ channel[j].type = "Terminate"

\* workers between lock() returning and the end of the let statement
InLetStatement == {w \in WorkerIds : wpc[w] \in {"recv", "unlock"}}

\* C23 as stated: at most one worker holds the receiver guard, every
\* release of the guard comes after exactly one envelope was taken under
\* it, and an envelope that leaves the channel goes to exactly one worker.
C23_OneEnvelopePerGuard ==
    /\ [](Cardinality(InLetStatement) <= 1)
    /\ [](\A w \in WorkerIds : w \in InLetStatement <=> guard = w)
    /\ [][\A w \in WorkerIds :
            (guard = w /\ guard' # w) =>
                (wpc[w] = "unlock" /\ message[w] # NoMessage)]_vars

\* C23, amended: at most one worker holds the receiver guard; a guard is
\* released after exactly one envelope was taken under it, or after none
\* when recv found the channel closed; an envelope that leaves the channel
\* is the only one to leave in that step and goes to exactly one worker,
\* the holder of the guard, which had none.
C23_OneEnvelopePerGuardUnlessClosed ==
    /\ [](Cardinality(InLetStatement) <= 1)
    /\ [](\A w \in WorkerIds : w \in InLetStatement <=> guard = w)
    /\ [](\A w \in WorkerIds :
            /\ wpc[w] \in {"lock", "recv"} => message[w] = NoMessage
            /\ wpc[w] = "unlock" => message[w] # NoMessage)
    /\ [][\A w \in WorkerIds :
            (guard = w /\ guard' # w) =>
                \/ wpc[w] = "unlock" /\ message[w] # NoMessage
                \/ /\ wpc[w] = "recv" /\ message[w] = NoMessage
                   /\ channel = <<>> /\ senderDropped]_vars
    /\ [][Len(channel') < Len(channel) =>
            /\ Len(channel') = Len(channel) - 1
            /\ \E w \in WorkerIds, i \in 1 .. Len(channel) :
                /\ guard = w /\ wpc[w] = "recv"
                /\ message'[w] = channel[i]
                /\ \A v \in WorkerIds \ {w} : message'[v] = message[v]]_vars
    /\ [](\A w, v \in WorkerIds :
            (w # v /\ message[w].type = "NewJob" /\ message[v].type = "NewJob")
                => message[w].job # message[v].job)

\* a worker holds the guard and has taken an envelope under it while
\* another worker waits for the guard
C23_Witness ==
    \E w, v \in WorkerIds :
        /\ w # v
        /\ guard = w /\ wpc[w] = "unlock" /\ message[w].type = "NewJob"
        /\ wpc[v] = "lock"

----
\* A directed schedule of the worker threads.  The operating system may
\* schedule the threads in any order; SpecDirected fixes one order for each
\* worker w and closure i: no other worker calls lock() while closure i is
\* the oldest envelope or the channel is empty.  Every step of it is a
\* step of Next, so each of its behaviours is an execution of the pool.

ChooseTarget(w, i) ==
    /\ mainpc = "start"
    /\ target = NoTarget
    /\ target' = [w |-> w, i |-> i]
    /\ UNCHANGED <<poolVars, appVars, httpVars>>

\* worker v may call lock() under the directed schedule
MayLock(v) ==
    \/ v = target.w
    \/ channel # <<>> /\ Head(channel) # NewJob(target.i)

DirectedWorker(w) ==
    \/ MayLock(w) /\ Lock(w)
    \/ Recv(w)
    \/ DropGuard(w)
    \/ StartJob(w)
    \/ JobReturn(w)

DirectedNew == \E n \in 1 .. MaxWorkers : target # NoTarget /\ n > target.w /\ NewBegin(n)

NextDirected ==
    \/ \E w \in WorkerIds, i \in 1 .. MaxJobs : ChooseTarget(w, i)
    \/ DirectedNew
    \/ NewSpawn
    \/ NewReturn
    \/ Execute("plain")
    \/ \E w \in WorkerIds : DirectedWorker(w)

SpecDirected ==
    /\ Init
    /\ [][NextDirected]_vars
    /\ \A w \in WorkerIds : WF_vars(DirectedWorker(w))
    /\ WF_vars(DirectedNew)
    /\ WF_vars(NewSpawn \/ NewReturn)
    /\ WF_vars(Execute("plain"))

\* the chosen worker is running the chosen closure
TargetReached ==
    /\ target # NoTarget
    /\ wpc[target.w] = "job"
    /\ message[target.w] = NewJob(target.i)

\* C24: for every worker w and every position i of the submission sequence
\* there is an execution in which w receives and runs the i-th closure:
\* every pair can be chosen, every step of the directed schedule for the
\* chosen pair is a step of the pool, and the schedule leads, before
\* closure i has returned, to a state in which worker w is running it.
C24_NoAffinity ==
    /\ [](target = NoTarget /\ mainpc = "start" =>
            \A w \in WorkerIds, i \in 1 .. MaxJobs : ENABLED ChooseTarget(w, i))
    /\ [][Next]_<<poolVars, appVars, httpVars>>
    /\ (target # NoTarget /\ target.i \notin finished) ~> TargetReached

\* the last worker of a pool is running the second closure after another
\* worker has taken the first
C24_Witness ==
    /\ TargetReached
    /\ target.w = size - 1
    /\ target.w > 0
    /\ target.i = 2
    /\ \E v \in WorkerIds : v # target.w /\ message[v] = NewJob(1)

----
\* workers whose thread was ended by the panic of a closure
DiedInJob == {w \in WorkerIds : panicAt[w] = "job"}

\* every thread has ended, and those that did not panic ended on a
\* Terminate envelope of their own
SurvivorsExited ==
    /\ LiveWorkers = {}
    /\ \A w \in Spawned \ DiedInJob : wpc[w] = "exited" /\ termRecv[w] = 1

----
\* The two programs of the repository.  A process runs one of them: the
\* web server builds a pool and no AppState, the message server builds
\* AppStates and no pool.
NextEither ==
    \/ Built = {} /\ Next
    \/ mainpc = "start" /\ NextApp

SpecEither == Init /\ [][NextEither]_vars

\* C26: no thread takes a lock while it holds one.  The worker that holds
\* the receiver guard is inside the let statement, where it only calls
\* recv: it is in no closure and calls no lock().  The handler that holds
\* the guard of the message log is past its lock() and only returns; it
\* moves nothing in or out of the channel.  Whoever takes a guard holds
\* none, and no state has both guards held.
C26_NoNestedLocks ==
    /\ [](\A w \in WorkerIds : guard = w => wpc[w] \in {"recv", "unlock"})
    /\ [](\A a \in ServerIds : msgGuard = a => hpc[a] = "locked")
    /\ [](guard = NoWorker \/ msgGuard = NoWorker)
    /\ [][\A w \in WorkerIds :
            (guard' = w /\ guard # w) =>
                (wpc[w] = "lock" /\ guard = NoWorker /\ msgGuard = NoWorker)]_vars
    /\ [][\A a \in ServerIds :
            (msgGuard' = a /\ msgGuard # a) =>
                (hpc[a] = "lock" /\ msgGuard = NoWorker /\ guard = NoWorker)]_vars
    /\ [][msgGuard # NoWorker => (channel' = channel /\ guard' = guard)]_vars

\* a worker holds the receiver guard, blocked in recv on the empty channel,
\* while every other worker of the pool runs a closure
C26_Witness ==
    /\ size >= 2
    /\ channel = <<>>
    /\ \E w \in WorkerIds :
        /\ guard = w /\ wpc[w] = "recv"
        /\ \A v \in Spawned \ {w} : wpc[v] = "job"

----
\* Closures that never return.  A worker that calls one stays inside
\* job(): no step of the worker follows StartJob.
NextHang ==
    \/ Next
    \/ Execute("hang")

SpecHang == Init /\ [][NextHang]_vars

\* worker w has received a closure that never returns
HoldsHang(w) ==
    /\ message[w].type = "NewJob"
    /\ jobKind[message[w].job] = "hang"

\* drop is in thread.join() of worker w
Joining(w) ==
    /\ mainpc = "drop_join"
    /\ joinIdx <= Len(workers)
    /\ workers[joinIdx].id = w
    /\ workers[joinIdx].thread = "Some"

\* C27: once a worker has received a closure that never returns, drop never
\* returns: the worker keeps the closure for ever, no state in which it
\* holds it has drop returned, and once drop joins that worker it stays in
\* that join, whatever the number of Terminate envelopes sent.
C27_HungJobBlocksDrop ==
    /\ [](\A w \in WorkerIds : HoldsHang(w) => mainpc # "done")
    /\ [][\A w \in WorkerIds : HoldsHang(w) => HoldsHang(w)']_vars
    /\ [][\A w \in WorkerIds :
            (HoldsHang(w) /\ Joining(w)) => (Joining(w)' /\ termSent' = termSent)]_vars

\* drop has sent every Terminate, every other worker has exited, and drop
\* is in the join of the worker inside the closure that never returns
C27_Witness ==
    \E w \in WorkerIds :
        /\ HoldsHang(w) /\ wpc[w] = "job"
        /\ Joining(w)
        /\ size >= 2
        /\ termSent = size
        /\ \A v \in Spawned \ {w} : wpc[v] = "exited"

----
\* a step of the thread of worker w
WorkerStep(w) == WorkerLoop(w) \/ JobReturn(w) \/ JobPanic(w) \/ BarrierWait(w)

\* the thread of worker w is running and can take no step: it is suspended
Suspended(w) == w \in LiveWorkers /\ ~ENABLED WorkerStep(w)

\* C28 as stated: a suspended worker is inside recv or inside a closure.
C28_SuspendedInRecvOrJob ==
    \A w \in WorkerIds : Suspended(w) => (wpc[w] = "recv" \/ w \in Executing)

\* C28, amended: a suspended worker is inside lock() while another worker
\* holds the receiver guard, inside recv on the empty channel whose sender
\* lives, or inside a closure; it is suspended nowhere else.
C28_SuspendedInLockRecvOrJob ==
    \A w \in WorkerIds :
        Suspended(w) =>
            \/ wpc[w] = "lock" /\ guard \in LiveWorkers \ {w}
            \/ wpc[w] = "recv" /\ guard = w /\ channel = <<>> /\ ~senderDropped
            \/ w \in Executing

\* three workers are suspended: one inside lock(), one inside recv, one
\* inside a closure that does not return
C28_Witness ==
    \E w, v, u \in WorkerIds :
        /\ Suspended(w) /\ wpc[w] = "lock"
        /\ Suspended(v) /\ wpc[v] = "recv"
        /\ Suspended(u) /\ wpc[u] = "job"

----
\* Further properties of the message server

\* the step in which actix worker a returns from clear
ClearReturns(a) ==
    /\ hpc[a] = "locked"
    /\ request[a].kind = "clear"
    /\ hpc'[a] = "idle"

\* C29: clear empties the message log under its guard and reports an empty
\* list: in the step in which clear returns and releases the guard the log
\* becomes empty and the response lists nothing; while no push has followed
\* the last clear the log is empty, and an index that returns then, on any
\* actix worker, lists nothing.
C29_ClearEmptiesLog ==
    /\ [][\A a \in ServerIds :
            ClearReturns(a) =>
                /\ msgGuard = a /\ msgGuard' = NoWorker
                /\ messages' = <<>>
                /\ response'[a].kind = "clear"
                /\ ListOf(response'[a]) = <<>>]_vars
    /\ [](lastWrite = "clear" => messages = <<>>)
    /\ [][\A a \in ServerIds :
            (IndexReturns(a) /\ lastWrite = "clear") =>
                ListOf(response'[a]) = <<>>]_vars

\* after a push, one actix worker has cleared the log and another has
\* then returned an empty list from index
C29_Witness ==
    \E a, b \in ServerIds :
        /\ a # b
        /\ response[a].kind = "clear"
        /\ response[b].kind = "index" /\ hpc[b] = "idle"
        /\ startLen[b] >= 1
        /\ lastWrite = "clear"
        /\ ListOf(response[b]) = <<>>

----
\* closures that have been called and have neither returned nor panicked
Running ==
    {j \in 1 .. NumSubmitted :
        /\ invoked[j] >= 1
        /\ j \notin finished
        /\ ~\E w \in WorkerIds : panicAt[w] = "job" /\ message[w] = NewJob(j)}

\* C30: at most size closures execute at the same time, however many have
\* been submitted: each executing closure is inside job() of a worker of
\* its own, and the pool has size workers.
C30_AtMostSizeExecuting ==
    /\ Cardinality(Running) <= size
    /\ Cardinality(Executing) <= size
    /\ Cardinality(Running) = Cardinality(Executing)
    /\ \A w \in Executing : message[w].type = "NewJob" /\ message[w].job \in Running

\* more closures have been submitted than the pool has workers; every
\* worker executes one and the rest wait in the channel
C30_Witness ==
    /\ NumSubmitted > size
    /\ Cardinality(Running) = size
    /\ Cardinality(Executing) = size
    /\ \E i \in 1 .. Len(channel) : channel[i].type = "NewJob"

----
\* The channel and the envelopes at the end of the pool

\* NewJob and Terminate envelopes in the channel
QueuedJobs == {i \in 1 .. Len(channel) : channel[i].type = "NewJob"}
QueuedTerminates == {i \in 1 .. Len(channel) : channel[i].type = "Terminate"}

\* C31: when drop has returned, which it does only if no closure panicked,
\* the channel is empty: the K NewJob envelopes and the N Terminate
\* envelopes sent have all been received, one Terminate by each worker.
C31_ChannelEmptyAfterDrop ==
    mainpc = "done" =>
        /\ ~AnyPanicked
        /\ channel = <<>>
        /\ QueuedJobs = {} /\ QueuedTerminates = {}
        /\ Len(recvOrder) = NumSubmitted
        /\ termSent = size
        /\ \A w \in Spawned : termRecv[w] = 1
        /\ EnvelopesReceived = NumSubmitted + size

\* drop has returned from a pool of two or more workers that received
\* every closure, and closures were in the channel when drop began
C31_Witness ==
    /\ mainpc = "done"
    /\ channel = <<>>
    /\ size >= 2
    /\ Len(recvOrder) = MaxJobs
    /\ queuedAtDrop = MaxJobs

\* C32: a worker receives at most one Terminate envelope; once it has, it
\* is at the end of the let statement, in the match or has left the loop,
\* holds no NewJob, and never again takes the receiver guard, receives an
\* envelope or calls a closure.
C32_TerminateIsFinal ==
    /\ [](\A w \in WorkerIds :
            /\ termRecv[w] <= 1
            /\ termRecv[w] = 1 =>
                /\ wpc[w] \in {"unlock", "match", "exited"}
                /\ message[w].type # "NewJob"
                /\ wpc[w] # "unlock" => guard # w)
    /\ [][\A w \in WorkerIds :
            termRecv[w] = 1 =>
                /\ ~(guard # w /\ guard' = w)
                /\ termRecv'[w] = 1
                /\ message'[w] \in {message[w], NoMessage}
                /\ wpc'[w] \notin {"lock", "recv", "job"}]_vars

\* a worker has left its loop on a Terminate while another runs a closure
\* and envelopes wait in the channel
C32_Witness ==
    \E w, v \in WorkerIds :
        /\ termRecv[w] = 1 /\ wpc[w] = "exited"
        /\ termRecv[v] = 0 /\ wpc[v] = "job"
        /\ channel # <<>>

\* C33: no closure is called more than once, also in executions in which
\* closures panic and worker threads end; a closure is called only after
\* its envelope has left the channel, and no two workers hold the same one.
C33_InvokedAtMostOnce ==
    /\ \A j \in 1 .. NumSubmitted :
        /\ invoked[j] <= 1
        /\ invoked[j] = 1 =>
            /\ \A i \in QueuedJobs : channel[i].job # j
            /\ Cardinality({i \in 1 .. Len(recvOrder) : recvOrder[i] = j}) = 1
    /\ \A w, v \in WorkerIds :
        (w # v /\ message[w].type = "NewJob") => message[v] # message[w]

\* a closure has been called once and has returned on a surviving worker
\* after the closure before it panicked and ended its worker
C33_Witness ==
    /\ NumSubmitted >= 2
    /\ invoked[1] = 1 /\ invoked[2] = 1
    /\ 2 \in finished
    /\ \E w \in WorkerIds : panicAt[w] = "job" /\ message[w] = NewJob(1)

\* workers that wait for an envelope: inside lock() or inside recv()
WaitingWorkers == {w \in WorkerIds : wpc[w] \in {"lock", "recv"}}

\* workers whose recv has returned an envelope in the let statement that
\* has not ended yet
JustReceived == {w \in WorkerIds : wpc[w] = "unlock"}

----
\* Further properties of the message server: server ids and the frame of
\* a handler

\* the server_id values of the AppStates built so far
AssignedIds == {serverId[a] : a \in Built}

\* C35: server_id values are handed out consecutively from 0: after k
\* AppStates have been built their ids are exactly 0 .. k-1 and
\* SERVER_COUNTER is k; the counter never decreases, it moves by one and
\* only when an AppState is built, and a server_id once given stays.
C35_ServerIdsConsecutive ==
    /\ [](/\ AssignedIds = 0 .. (Cardinality(Built) - 1)
          /\ serverCounter = Cardinality(Built)
          /\ \A a \in ServerIds \ Built : serverId[a] = -1)
    /\ [][/\ serverCounter' >= serverCounter
          /\ serverCounter' # serverCounter =>
                /\ serverCounter' = serverCounter + 1
                /\ Cardinality(Built') = Cardinality(Built) + 1
          /\ \A a \in Built : serverId'[a] = serverId[a]]_vars

\* every actix worker has built its AppState, the last of them first
C35_Witness ==
    /\ Built = ServerIds
    /\ serverCounter = MaxServers
    /\ serverId[MaxServers - 1] = 0
    /\ \E a \in ServerIds : handled[a] >= 1

\* actix worker a takes a step of a handler
HandlerStep(a) == hpc[a] # "unbuilt" /\ hpc'[a] # hpc[a]

\* C36: a step of a handler on one actix worker leaves the request_count,
\* the local count, the request and the last response of every other actix
\* worker, every server_id and SERVER_COUNTER as they were; of what the
\* other workers see it changes at most the message log and its guard.
C36_HandlerFrame ==
    [][\A a \in ServerIds :
         HandlerStep(a) =>
            /\ \A b \in ServerIds \ {a} :
                /\ requestCount'[b] = requestCount[b]
                /\ localCount'[b] = localCount[b]
                /\ request'[b] = request[b]
                /\ response'[b] = response[b]
                /\ hpc'[b] = hpc[b]
            /\ serverId' = serverId
            /\ serverCounter' = serverCounter]_vars

\* two actix workers have handled different numbers of requests, and the
\* list one of them returned shows a message posted through the other
C36_Witness ==
    \E a, b \in ServerIds :
        /\ a # b
        /\ requestCount[a] = 1 /\ response[a].kind = "post"
        /\ requestCount[b] = 2 /\ response[b].kind = "index"
        /\ hpc[a] = "idle" /\ hpc[b] = "idle"
        /\ ListOf(response[b]) = <<response[a].message>>
====
